---- MODULE Spec2Model ----
(***************************************************************************)
(* Model of ramp-to-css-pwa: the ramp engine (src/lib/ramp.ts), the token  *)
(* builder (src/lib/tokens.ts) and the page state that drives them         *)
(* (src/app/page.tsx).                                                     *)
(*                                                                         *)
(* Strings are TLC strings; a character is a string of length one.         *)
(* A call that may throw yields Return(v) or Throw(message).               *)
(* Lightness and chroma are integers in millionths (Unit); sample          *)
(* positions and hues (degrees) are in thousandths (Milli, Degree), so     *)
(* that every interpolation the ramp performs is exact.                    *)
(* The numeric colour conversions of the culori package are not part of    *)
(* the repository: what they return is an argument (lib) of the operators  *)
(* that call them: an action of the ramp engine chooses it from CulLibs,   *)
(* the page is given it for each colour (culori) when it starts.           *)
(***************************************************************************)
EXTENDS Integers, Sequences, FiniteSets, TLC

VARIABLES
    hexIn,        \* ramp engine: the string handed to the hex functions
    stopSet,      \* "figma" | "even" (argument of generateRamp9, page state)
    valid,        \* result of isValidHex(hexIn)
    normalized,   \* result of normalizeHex(hexIn)
    renormalized, \* result of normalizeHex applied to the result above
    ramp,         \* result of generateRamp9(hexIn, stopSet)
    lib,          \* what culori returned during the last generateRamp9 call
    samples,      \* the colours the last generateRamp9 call sampled, in order
    hueA,         \* interpolation: hue of the first colour, in Degree
    hueB,         \* interpolation: hue of the second colour, in Degree
    frac,         \* interpolation: the fraction t, in Milli
    delta,        \* result of shortestHueDelta(hueA, hueB)
    mixed,        \* result of lerpOklch on colours of hues hueA and hueB
    palette,      \* token builder: argument palette
    ramps,        \* token builder: argument ramps
    mapping,      \* token builder argument / page state mapping
    bundle,       \* result of buildTokens(palette, ramps, mapping)
    prior,        \* primitives of the build before the last one, if any
    rows,         \* page state rows
    culori,       \* page: what culori returns for each base colour
    edits         \* page: number of edits made so far

vars == <<hexIn, stopSet, valid, normalized, renormalized, ramp, lib, samples,
          hueA, hueB, frac, delta, mixed,
          palette, ramps, mapping, bundle, prior, rows, culori, edits>>

hueVars == <<hueA, hueB, frac, delta, mixed>>
rampVars == <<hexIn, valid, normalized, renormalized, ramp, lib, samples, hueVars>>
tokenVars == <<palette, ramps, bundle, prior>>
pageVars == <<rows, culori, edits>>

(***************************************************************************)
(* Bounds of the model.                                                    *)
(***************************************************************************)
\* longest free-form input string enumerated for the hex functions
MaxLen == 3
\* largest palette handed to buildTokens
MaxPalette == 2
\* number of edits made on the page
MaxEdits == 1

(***************************************************************************)
(* Results of calls, JavaScript values.                                    *)
(***************************************************************************)
Return(v) == [throws |-> FALSE, value |-> v]
Throw(m) == [throws |-> TRUE, message |-> m]
NotCalled == [throws |-> FALSE, pending |-> TRUE]
Returned(r) == DOMAIN r = {"throws", "value"}

Undefined == [mode |-> "undefined"]

(***************************************************************************)
(* Strings.                                                                *)
(***************************************************************************)
Char(s, i) == SubSeq(s, i, i)

RECURSIVE Join(_)
Join(chars) == IF chars = <<>> THEN "" ELSE Head(chars) \o Join(Tail(chars))

\* all strings of length n over the characters cs
StringsOf(cs, n) == { Join(f) : f \in [1..n -> cs] }

WhiteSpace == {" "}
UpperChars == "ABCDEFGHIJKLMNOPQRSTUVWXYZ"
LowerChars == "abcdefghijklmnopqrstuvwxyz"
HexChars == "0123456789abcdef"
HexLower == { Char(HexChars, i) : i \in 1..16 }
HexAny == HexLower \cup {"A", "B", "C", "D", "E", "F"}

\* String.prototype.trim
RECURSIVE trimStart(_)
trimStart(s) ==
    IF Len(s) > 0 /\ Char(s, 1) \in WhiteSpace
    THEN trimStart(SubSeq(s, 2, Len(s)))
    ELSE s

RECURSIVE trimEnd(_)
trimEnd(s) ==
    IF Len(s) > 0 /\ Char(s, Len(s)) \in WhiteSpace
    THEN trimEnd(SubSeq(s, 1, Len(s) - 1))
    ELSE s

trim(s) == trimEnd(trimStart(s))

\* String.prototype.toLowerCase
LowerOf ==
    [c \in { Char(UpperChars, i) : i \in 1..26 } |->
        Char(LowerChars, CHOOSE i \in 1..26 : Char(UpperChars, i) = c)]

lowerChar(c) == IF c \in DOMAIN LowerOf THEN LowerOf[c] ELSE c

RECURSIVE toLowerCase(_)
toLowerCase(s) ==
    IF Len(s) = 0 THEN ""
    ELSE lowerChar(Char(s, 1)) \o toLowerCase(SubSeq(s, 2, Len(s)))

\* /^#[digits]{n}$/.test(s)
HashDigits(s, digits, n) ==
    /\ Len(s) = n + 1
    /\ Char(s, 1) = "#"
    /\ \A i \in 2..(n + 1) : Char(s, i) \in digits

(***************************************************************************)
(* culori: parse and formatHex, exact on hex strings and colour names.     *)
(* An rgb colour carries its channels as bytes.                            *)
(***************************************************************************)
Rgb(r, g, b) == [mode |-> "rgb", r |-> r, g |-> g, b |-> b]

NamedColors == [red |-> Rgb(255, 0, 0), tan |-> Rgb(210, 180, 140)]

DigitOf ==
    [c \in HexAny |-> (CHOOSE i \in 1..16 : Char(HexChars, i) = lowerChar(c)) - 1]

digitValue(c) == DigitOf[c]

byte1(s, i) == 17 * digitValue(Char(s, i))
byte2(s, i) == 16 * digitValue(Char(s, i)) + digitValue(Char(s, i + 1))

\* culori parse: #rgb, #rgba, #rrggbb, #rrggbbaa (the # optional, any case)
\* and colour names (any case); anything else is undefined
parse(s) ==
    LET d == IF Len(s) > 0 /\ Char(s, 1) = "#" THEN SubSeq(s, 2, Len(s)) ELSE s
        n == Len(d)
    IN  IF n \in {3, 4, 6, 8} /\ \A i \in 1..n : Char(d, i) \in HexAny
        THEN IF n \in {3, 4}
             THEN Rgb(byte1(d, 1), byte1(d, 2), byte1(d, 3))
             ELSE Rgb(byte2(d, 1), byte2(d, 3), byte2(d, 5))
        ELSE IF toLowerCase(s) \in DOMAIN NamedColors
        THEN NamedColors[toLowerCase(s)]
        ELSE Undefined

hex2(n) == Char(HexChars, (n \div 16) + 1) \o Char(HexChars, (n % 16) + 1)

\* culori formatHex
formatHex(color) ==
    IF color = Undefined THEN Undefined
    ELSE "#" \o hex2(color.r) \o hex2(color.g) \o hex2(color.b)

(***************************************************************************)
(* src/lib/ramp.ts: normalizeHex, isValidHex                               *)
(***************************************************************************)
expand3(h) ==
    "#" \o Char(h, 2) \o Char(h, 2) \o Char(h, 3) \o Char(h, 3)
        \o Char(h, 4) \o Char(h, 4)

normalizeHex_NoLower(hex) ==
    LET h == trim(hex)
    IN  IF HashDigits(h, HexAny, 3) THEN Return(expand3(h))
        ELSE IF HashDigits(h, HexAny, 6) THEN Return(h)
        ELSE IF parse(h) = Undefined THEN Throw("Invalid hex")
        ELSE Return(formatHex(parse(h)))

RECURSIVE normalizeHex(_)
normalizeHex(hex) ==
    LET h == toLowerCase(trim(hex))
    IN  IF HashDigits(h, HexLower, 3) THEN Return(expand3(h))
        ELSE IF HashDigits(h, HexLower, 6) THEN Return(h)
        ELSE LET p == parse(h)
             IN  IF p = Undefined THEN Throw("Invalid hex")
                 ELSE normalizeHex(formatHex(p))

isValidHex(hex) ==
    LET h == trim(hex)
    IN  HashDigits(h, HexAny, 6) \/ HashDigits(h, HexAny, 3)

(***************************************************************************)
(* culori: the numeric conversions.  lib.oklch is what converter("oklch")  *)
(* returns for the base colour; lib.gamut[i] is what clampGamut and        *)
(* converter("rgb") return for the i-th sample.                            *)
(***************************************************************************)
Unit == 1000000
Milli == 1000
Degree == Milli

White == [mode |-> "oklch", l |-> Unit, c |-> 0]
Black == [mode |-> "oklch", l |-> 0, c |-> 0]

toOklch(color, oklch) ==
    IF color = Undefined THEN Undefined
    ELSE IF color = Rgb(255, 255, 255) THEN White
    ELSE IF color = Rgb(0, 0, 0) THEN Black
    ELSE oklch

\* the call may raise inside the library, or return a colour or nothing
clampGamut(color, g) ==
    IF g.raises THEN Throw("TypeError")
    ELSE Return(IF g.clamp THEN color ELSE Undefined)

toRgb(color, g) == g.rgb

(***************************************************************************)
(* src/lib/ramp.ts: interpolation                                          *)
(***************************************************************************)
\* the % of JavaScript: the remainder has the sign of the dividend
Rem(x, m) == IF x >= 0 THEN x % m ELSE -((-x) % m)

\* a.h ?? 0
hOr0(a) == IF "h" \in DOMAIN a THEN a.h ELSE 0

wrapHue(h) ==
    LET x == Rem(h, 360 * Degree)
    IN  IF x < 0 THEN x + 360 * Degree ELSE x

shortestHueDelta(a, b) ==
    LET d0 == Rem(b - a, 360 * Degree)
        d1 == IF d0 > 180 * Degree THEN d0 - 360 * Degree ELSE d0
    IN  IF d1 < -180 * Degree THEN d1 + 360 * Degree ELSE d1

\* t is in thousandths
lerpOklch(a, b, t) ==
    LET ah == wrapHue(hOr0(a))
        bh == wrapHue(hOr0(b))
        dh == shortestHueDelta(ah, bh)
    IN  [mode |-> "oklch",
         l |-> a.l + ((b.l - a.l) * t) \div Milli,
         c |-> a.c + ((b.c - a.c) * t) \div Milli,
         h |-> wrapHue(ah + (dh * t) \div Milli)]

sampleRefined_OneLeg(light, base, dark, t01) == lerpOklch(light, dark, t01)

\* t01 is in thousandths: t01 / 0.5 is 2 * t01
sampleRefined(light, base, dark, t01) ==
    IF t01 <= 500
    THEN lerpOklch(light, base, 2 * t01)
    ELSE lerpOklch(base, dark, 2 * (t01 - 500))

sampleWhiteBaseBlack(baseHex, t01, oklch) ==
    LET base == toOklch(parse(baseHex), oklch)
        white == toOklch(parse("#ffffff"), oklch)
        black == toOklch(parse("#000000"), oklch)
    IN  IF base = Undefined THEN Throw("Invalid base hex")
        ELSE IF t01 <= 500
        THEN Return(lerpOklch(white, base, 2 * t01))
        ELSE Return(lerpOklch(base, black, 2 * (t01 - 500)))

toHexSafe(oklchColor, g) ==
    LET clamped == clampGamut(oklchColor, g)
    IN  IF clamped.throws THEN clamped
        ELSE IF clamped.value = Undefined
        THEN Throw("Failed to clamp color to gamut")
        ELSE LET rgb == toRgb(clamped.value, g)
             IN  IF rgb = Undefined THEN Throw("Failed to convert to RGB")
                 ELSE normalizeHex(formatHex(rgb))

(***************************************************************************)
(* src/lib/ramp.ts: generateRamp9                                          *)
(***************************************************************************)
positions(set) ==
    IF set = "even"
    THEN <<0, 125, 250, 375, 500, 625, 750, 875, 1000>>
    ELSE <<0, 130, 250, 380, 500, 630, 750, 880, 1000>>

rampSteps_Short == <<100, 200, 300, 400, 500, 600, 700, 800>>

rampSteps == <<100, 200, 300, 400, 500, 600, 700, 800, 900>>

\* lines 58-59: the colour c of the i-th turn of the loop
samplePoint(light, base, dark, set, i) ==
    sampleRefined(light, base, dark, positions(set)[i])

\* the loop of lines 56-61: the samples in order, the first failure ends it
sampleAll(light, base, dark, set, gamut) ==
    LET n == Len(rampSteps)
        hex == [i \in 1..n |->
                   toHexSafe(samplePoint(light, base, dark, set, i), gamut[i])]
        bad == { i \in 1..n : hex[i].throws }
    IN  IF bad # {}
        THEN hex[CHOOSE i \in bad : \A j \in bad : i <= j]
        ELSE Return([s \in { rampSteps[i] : i \in 1..n } |->
                        hex[CHOOSE i \in 1..n : rampSteps[i] = s].value])

setBase_Skip(out, baseHex) == Return(out)

\* line 64: out[500] = normalizeHex(baseHex)
setBase(out, baseHex) ==
    LET n == normalizeHex(baseHex)
    IN  IF n.throws THEN n
        ELSE Return([s \in DOMAIN out \cup {500} |->
                        IF s = 500 THEN n.value ELSE out[s]])

generateRamp9(baseHex, set, cul) ==
    LET baseParsed == parse(baseHex)
        base == IF baseParsed # Undefined
                THEN toOklch(baseParsed, cul.oklch)
                ELSE Undefined
    IN  IF base = Undefined THEN Throw("Invalid hex color")
        ELSE LET lightEndpoint == sampleWhiteBaseBlack(baseHex, 250, cul.oklch)
                 darkEndpoint == sampleWhiteBaseBlack(baseHex, 750, cul.oklch)
             IN  IF lightEndpoint.throws THEN lightEndpoint
                 ELSE IF darkEndpoint.throws THEN darkEndpoint
                 ELSE LET out == sampleAll(lightEndpoint.value, base,
                                           darkEndpoint.value, set, cul.gamut)
                      IN  IF out.throws THEN out
                          ELSE setBase(out.value, baseHex)

\* the colours c the loop of generateRamp9 computed before it ended: none
\* when the call throws before the loop, those up to the first failure else
sampled(baseHex, set, cul) ==
    LET baseParsed == parse(baseHex)
        base == IF baseParsed # Undefined
                THEN toOklch(baseParsed, cul.oklch)
                ELSE Undefined
    IN  IF base = Undefined THEN <<>>
        ELSE LET light == sampleWhiteBaseBlack(baseHex, 250, cul.oklch).value
                 dark == sampleWhiteBaseBlack(baseHex, 750, cul.oklch).value
                 n == Len(rampSteps)
                 bad == { i \in 1..n :
                            toHexSafe(samplePoint(light, base, dark, set, i),
                                      cul.gamut[i]).throws }
                 last == IF bad = {} THEN n
                         ELSE CHOOSE i \in bad : \A j \in bad : i <= j
             IN  [i \in 1..last |-> samplePoint(light, base, dark, set, i)]

(***************************************************************************)
(* What culori may return: the base colour's perceptual point, and per     *)
(* sample an exception, no clamped colour, no rgb colour, or an rgb        *)
(* colour.                                                                 *)
(***************************************************************************)
OklchPoints ==
    { [mode |-> "oklch", l |-> 380000, c |-> 140000, h |-> 268 * Degree],
      [mode |-> "oklch", l |-> 600000, c |-> 0],
      [mode |-> "oklch", l |-> Unit, c |-> 20000, h |-> 180 * Degree],
      [mode |-> "oklch", l |-> 0, c |-> 0, h |-> 90 * Degree] }

RgbPoints == { Rgb(28, 46, 122), Rgb(171, 205, 239) }

GamutOutcomes ==
    { [raises |-> TRUE, clamp |-> FALSE, rgb |-> Undefined],
      [raises |-> FALSE, clamp |-> FALSE, rgb |-> Undefined],
      [raises |-> FALSE, clamp |-> TRUE, rgb |-> Undefined] }
    \cup { [raises |-> FALSE, clamp |-> TRUE, rgb |-> c] : c \in RgbPoints }

InGamut(c) == [raises |-> FALSE, clamp |-> TRUE, rgb |-> c]

\* every sample converts to the same colour, or one sample has another outcome
Gamuts ==
    { [i \in 1..9 |-> InGamut(d)] : d \in RgbPoints }
    \cup { [i \in 1..9 |-> IF i = k THEN o ELSE InGamut(Rgb(28, 46, 122))] :
              k \in 1..9, o \in GamutOutcomes }

CulLibs == [oklch : OklchPoints, gamut : Gamuts]

NoLib == [oklch |-> Undefined]

(***************************************************************************)
(* JavaScript objects with string keys: the own properties in insertion    *)
(* order, each an entry [k, v].  A property that is not there reads as     *)
(* undefined, which a template literal renders as "undefined".             *)
(***************************************************************************)
Entry(k, v) == [k |-> k, v |-> v]

Keys(obj) == { obj[i].k : i \in DOMAIN obj }

Get(obj, k) ==
    IF k \in Keys(obj)
    THEN obj[CHOOSE i \in DOMAIN obj : obj[i].k = k].v
    ELSE "undefined"

\* obj[k] = v
Put(obj, k, v) ==
    IF k \in Keys(obj)
    THEN [i \in DOMAIN obj |-> IF obj[i].k = k THEN Entry(k, v) ELSE obj[i]]
    ELSE Append(obj, Entry(k, v))

\* the properties every object literal inherits from Object.prototype
ObjectPrototypeKeys ==
    {"constructor", "toString", "valueOf", "hasOwnProperty", "isPrototypeOf",
     "propertyIsEnumerable", "toLocaleString", "__proto__"}

(***************************************************************************)
(* src/lib/tokens.ts                                                       *)
(***************************************************************************)
steps_Short == <<100, 200, 300, 400, 500, 600, 700, 800>>

steps == <<100, 200, 300, 400, 500, 600, 700, 800, 900>>

varNamePrimitive(id, step) == "--c-" \o id \o "-" \o ToString(step)

varLine(name, value) == "  " \o name \o ": " \o value \o ";"

\* ramps[c.id]: the ramp map is an object literal, keyed by id
RampInherited == [inherited |-> TRUE]

rampOf(rampMap, id) ==
    IF id \in DOMAIN rampMap THEN rampMap[id]
    ELSE IF id \in ObjectPrototypeKeys THEN RampInherited
    ELSE Undefined

\* ramp[s]
stepOf(r, s) == IF r = RampInherited THEN "undefined" ELSE r[s]

\* lines 51-53; each assignment is made before the next turn of the loop
RECURSIVE addSteps(_, _, _, _)
addSteps(primitives, id, r, i) ==
    IF i > Len(steps) THEN primitives
    ELSE LET assigned == Put(primitives, varNamePrimitive(id, steps[i]),
                             stepOf(r, steps[i]))
         IN  IF Len(assigned) > 0
             THEN addSteps(assigned, id, r, i + 1)
             ELSE assigned

primitivesOf_Used(pal, rampMap, m) ==
    LET used == { m[t][k] : t \in DOMAIN m, k \in {"surfacePrimary", "textPrimary"} }
        F[j \in 0..Len(pal)] ==
            IF j = 0 THEN <<>>
            ELSE IF pal[j].id \in used /\ pal[j].id \in DOMAIN rampMap
                 THEN addSteps(F[j - 1], pal[j].id, rampMap[pal[j].id], 1)
                 ELSE F[j - 1]
    IN  F[Len(pal)]

\* lines 46-54; the loop over the palette from its i-th colour on
RECURSIVE primitivesFrom(_, _, _, _)
primitivesFrom(primitives, pal, rampMap, i) ==
    IF i > Len(pal) THEN primitives
    ELSE LET r == rampOf(rampMap, pal[i].id)
         IN  IF r = Undefined
             THEN primitivesFrom(primitives, pal, rampMap, i + 1)
             ELSE LET added == addSteps(primitives, pal[i].id, r, 1)
                  IN  IF Len(added) > 0
                      THEN primitivesFrom(added, pal, rampMap, i + 1)
                      ELSE added

\* lines 46-54, inside buildTokens(palette, ramps, mapping)
primitivesOf(pal, rampMap, m) == primitivesFrom(<<>>, pal, rampMap, 1)

\* lines 69-83 (and the two steps written in place at lines 95 and 116)
surfacePrimaryStep(theme) == IF theme = "light" THEN 100 ELSE 900
surfaceSecondaryStep(theme) == IF theme = "light" THEN 200 ELSE 800
surfaceInverseStep(theme) == IF theme = "light" THEN 900 ELSE 100
textPrimaryStep(theme) == IF theme = "light" THEN 900 ELSE 100
textSecondaryStep(theme) == IF theme = "light" THEN 700 ELSE 200
textMutedStep(theme) == IF theme = "light" THEN 600 ELSE 400
textDisabledStep_Mirrored(theme) == IF theme = "light" THEN 400 ELSE 600
textDisabledStep(theme) == IF theme = "light" THEN 400 ELSE 500
textInverseStep(theme) == IF theme = "light" THEN 100 ELSE 900
borderDefaultStep_Flat(theme) == 300
borderDefaultStep(theme) == IF theme = "light" THEN 300 ELSE 700
borderStrongStep(theme) == IF theme = "light" THEN 400 ELSE 600
borderSubtleStep(theme) == IF theme = "light" THEN 200 ELSE 800
accentDefaultStep == 500
accentHoverStep == 600
accentActiveStep == 700

varRef_Bare(id, step) == varNamePrimitive(id, step)

\* `var(${varNamePrimitive(id, step)})`
varRef(id, step) == "var(" \o varNamePrimitive(id, step) \o ")"

\* lines 85-151: themes[theme]
semanticTokens(theme, m) ==
    LET t == << Entry("--surface-primary", varRef(m.surfacePrimary, surfacePrimaryStep(theme))),
                Entry("--surface-secondary", varRef(m.surfacePrimary, surfaceSecondaryStep(theme))),
                Entry("--surface-inverse", varRef(m.surfaceInverse, surfaceInverseStep(theme))),
                Entry("--text-primary", varRef(m.textPrimary, textPrimaryStep(theme))),
                Entry("--text-secondary", varRef(m.textPrimary, textSecondaryStep(theme))),
                Entry("--text-muted", varRef(m.textPrimary, textMutedStep(theme))),
                Entry("--text-disabled", varRef(m.textPrimary, textDisabledStep(theme))),
                Entry("--text-inverse", varRef(m.textInverse, textInverseStep(theme))),
                Entry("--border-default", varRef(m.textPrimary, borderDefaultStep(theme))),
                Entry("--border-strong", varRef(m.textPrimary, borderStrongStep(theme))),
                Entry("--border-subtle", varRef(m.textPrimary, borderSubtleStep(theme))),
                Entry("--accent", varRef(m.accentPrimary, accentDefaultStep)),
                Entry("--accent-hover", varRef(m.accentPrimary, accentHoverStep)),
                Entry("--accent-active", varRef(m.accentPrimary, accentActiveStep)),
                Entry("--accent-inverse", varRef(m.accentInverse, accentDefaultStep)) >>
        l1 == Put(t, "--link", Get(t, "--accent"))
        l2 == Put(l1, "--link-hover", Get(l1, "--accent-hover"))
    IN  Put(l2, "--link-active", Get(l2, "--accent-active"))

\* lines 154-183: components[theme], from the finished themes[theme]
componentTokens(t) ==
    << Entry("--btn-primary-bg", Get(t, "--surface-inverse")),
       Entry("--btn-primary-text", Get(t, "--text-inverse")),
       Entry("--btn-primary-bg-hover", Get(t, "--accent-hover")),
       Entry("--btn-primary-bg-active", Get(t, "--accent-active")),
       Entry("--btn-primary-bg-disabled", Get(t, "--surface-secondary")),
       Entry("--btn-primary-text-disabled", Get(t, "--text-disabled")),
       Entry("--btn-secondary-bg", "transparent"),
       Entry("--btn-secondary-text", Get(t, "--text-primary")),
       Entry("--btn-secondary-border", Get(t, "--border-default")),
       Entry("--btn-secondary-bg-hover", Get(t, "--surface-secondary")),
       Entry("--btn-secondary-bg-active", Get(t, "--surface-secondary")),
       Entry("--btn-secondary-text-disabled", Get(t, "--text-disabled")),
       Entry("--btn-secondary-border-disabled", Get(t, "--border-subtle")),
       Entry("--input-bg", Get(t, "--surface-primary")),
       Entry("--input-text", Get(t, "--text-primary")),
       Entry("--input-placeholder", Get(t, "--text-muted")),
       Entry("--input-border", Get(t, "--border-default")),
       Entry("--input-border-focus", Get(t, "--accent")),
       Entry("--input-bg-disabled", Get(t, "--surface-secondary")),
       Entry("--input-text-disabled", Get(t, "--text-disabled")) >>

\* a.localeCompare(b) < 0 on the characters keys are made of: punctuation
\* before digits before letters, then the shorter string first
Collation == "-_ #0123456789abcdefghijklmnopqrstuvwxyz"

RankOf ==
    [c \in { Char(Collation, i) : i \in 1..Len(Collation) } |->
        CHOOSE i \in 1..Len(Collation) : Char(Collation, i) = c]

rank(c) ==
    LET l == lowerChar(c)
    IN  IF l \in DOMAIN RankOf THEN RankOf[l] ELSE 0

\* the collation ranks of the characters of a key
RECURSIVE ranksFrom(_, _, _)
ranksFrom(done, k, i) ==
    IF i > Len(k) THEN done
    ELSE ranksFrom(Append(done, rank(Char(k, i))), k, i + 1)

ranks(k) == ranksFrom(<<>>, k, 1)

\* a.localeCompare(b) < 0, a and b given by their ranks, from the i-th on
RECURSIVE beforeFrom(_, _, _)
beforeFrom(a, b, i) ==
    IF i > Len(b) THEN FALSE
    ELSE IF i > Len(a) THEN TRUE
    ELSE IF a[i] # b[i] THEN a[i] < b[i]
    ELSE beforeFrom(a, b, i + 1)

\* Object.keys(primitives).sort(localeCompare): the keys, each with its
\* ranks, are put one by one after the keys that come before them
\* how many of the sorted keys come before e: they are the first ones, so
\* the count is found between lo and hi by halving
RECURSIVE keysBefore(_, _, _, _)
keysBefore(sorted, e, lo, hi) ==
    IF lo >= hi THEN lo
    ELSE LET mid == (lo + hi + 1) \div 2
         IN  IF beforeFrom(sorted[mid][1], e[1], 1)
             THEN keysBefore(sorted, e, mid, hi)
             ELSE keysBefore(sorted, e, lo, mid - 1)

insertKey(sorted, e) ==
    LET n == keysBefore(sorted, e, 0, Len(sorted))
    IN  SubSeq(sorted, 1, n) \o <<e>> \o SubSeq(sorted, n + 1, Len(sorted))

RECURSIVE sortInto(_, _)
sortInto(sorted, es) ==
    IF es = {} THEN [i \in DOMAIN sorted |-> sorted[i][2]]
    ELSE LET e == CHOOSE x \in es : TRUE
             inserted == insertKey(sorted, e)
         IN  IF Len(inserted) > 0
             THEN sortInto(inserted, es \ {e})
             ELSE <<>>

sortKeys(ks) == sortInto(<<>>, { <<ranks(k), k>> : k \in ks })

declarations(obj) == [i \in DOMAIN obj |-> varLine(obj[i].k, obj[i].v)]

\* lines 196-206
themeBlock(theme, t, c) ==
    <<"[data-theme=\"" \o theme \o "\"] {", "  /* Semantic tokens */">>
    \o declarations(t)
    \o <<"", "  /* Component tokens */">>
    \o declarations(c)
    \o <<"}", "">>

\* lines 186-194
rootBlock(primitives, primitiveKeys) ==
    <<":root {", "  /* Primitive ramps */">>
    \o [i \in DOMAIN primitiveKeys |->
           varLine(primitiveKeys[i], Get(primitives, primitiveKeys[i]))]
    \o <<"}", "">>

\* lines 186-208; the css text is kept as its lines: the string is their
\* join by "\n"
makeBundle(primitives, themes, components) ==
    [css |-> rootBlock(primitives, sortKeys(Keys(primitives)))
             \o themeBlock("light", themes["light"], components["light"])
             \o themeBlock("dark", themes["dark"], components["dark"]),
     json |-> [primitives |-> primitives,
               themes |-> themes,
               components |-> components]]

buildTokens(pal, rampMap, m) ==
    LET themes == [theme \in {"light", "dark"} |-> semanticTokens(theme, m[theme])]
        components == [theme \in {"light", "dark"} |-> componentTokens(themes[theme])]
    IN  Return(makeBundle(primitivesOf(pal, rampMap, m), themes, components))

(***************************************************************************)
(* The hex functions and the ramp engine applied to bounded inputs.        *)
(***************************************************************************)
InChars == {"#", "0", "a", "F", "g", " "}

FreeInputs == UNION { StringsOf(InChars, n) : n \in 0..MaxLen }

HexInputs ==
    FreeInputs
    \cup { "#" \o d : d \in StringsOf({"0", "c", "F"}, 3) }
    \cup { "#" \o d : d \in StringsOf({"00", "e0", "0E"}, 3) }
    \cup { "#1c2e7a", "#1C2E7A", " #1c2e7a ", "1c2e7a", "#abc", " #AbC",
           "#abcdef", "#ABCDEF", "#ffffff", "#000000", "#abcd", "#aabbccdd",
           "#zzzzzz", "#12345", "red", "Red", " red", "tan", "#", "" }

IdlePalette == <<>>
IdleRamps == <<>>
IdleMapping == <<>>
IdleRows == <<>>

\* no interpolation is under way
IdleHue ==
    /\ hueA = 0
    /\ hueB = 0
    /\ frac = 0
    /\ delta = NotCalled
    /\ mixed = NotCalled

InitRamp ==
    /\ hexIn \in HexInputs
    /\ stopSet \in {"figma", "even"}
    /\ valid = NotCalled
    /\ normalized = NotCalled
    /\ renormalized = NotCalled
    /\ ramp = NotCalled
    /\ lib = NoLib
    /\ samples = <<>>
    /\ IdleHue
    /\ palette = IdlePalette
    /\ ramps = IdleRamps
    /\ mapping = IdleMapping
    /\ bundle = NotCalled
    /\ prior = NotCalled
    /\ rows = IdleRows
    /\ culori = <<>>
    /\ edits = 0

Validate ==
    /\ valid = NotCalled
    /\ ramp = NotCalled
    /\ valid' = Return(isValidHex(hexIn))
    /\ UNCHANGED <<hexIn, stopSet, normalized, renormalized, ramp, lib, samples>>
    /\ UNCHANGED <<tokenVars, mapping, pageVars, hueVars>>

Normalize ==
    /\ normalized = NotCalled
    /\ ramp = NotCalled
    /\ normalized' = normalizeHex(hexIn)
    /\ UNCHANGED <<hexIn, stopSet, valid, renormalized, ramp, lib, samples>>
    /\ UNCHANGED <<tokenVars, mapping, pageVars, hueVars>>

Renormalize ==
    /\ Returned(normalized)
    /\ renormalized = NotCalled
    /\ renormalized' = normalizeHex(normalized.value)
    /\ UNCHANGED <<hexIn, stopSet, valid, normalized, ramp, lib, samples>>
    /\ UNCHANGED <<tokenVars, mapping, pageVars, hueVars>>

Generate ==
    /\ ramp = NotCalled
    /\ valid = NotCalled
    /\ normalized = NotCalled
    /\ \E cul \in CulLibs :
         /\ lib' = cul
         /\ ramp' = generateRamp9(hexIn, stopSet, cul)
         /\ samples' = sampled(hexIn, stopSet, cul)
    /\ UNCHANGED <<hexIn, stopSet, valid, normalized, renormalized>>
    /\ UNCHANGED <<tokenVars, mapping, pageVars, hueVars>>

NextRamp == Validate \/ Normalize \/ Renormalize \/ Generate

SpecRamp == InitRamp /\ [][NextRamp]_vars

(***************************************************************************)
(* The hue arithmetic of the interpolation applied to bounded hues and     *)
(* fractions.                                                              *)
(***************************************************************************)
\* hues in [0, 360), in Degree: the ends, the middle and its neighbours
Hues ==
    {0, 1, 90 * Degree, 180 * Degree - 1, 180 * Degree, 180 * Degree + 1,
     268 * Degree, 360 * Degree - 1}

\* fractions in [0, 1], in Milli
Fractions == {0, 260, 500, 760, 1000}

\* a colour of the given hue
HueColor(h) == [mode |-> "oklch", l |-> 600000, c |-> 100000, h |-> h]

InitHue ==
    /\ hueA \in Hues
    /\ hueB \in Hues
    /\ frac \in Fractions
    /\ delta = NotCalled
    /\ mixed = NotCalled
    /\ hexIn = ""
    /\ stopSet = "figma"
    /\ valid = NotCalled
    /\ normalized = NotCalled
    /\ renormalized = NotCalled
    /\ ramp = NotCalled
    /\ lib = NoLib
    /\ samples = <<>>
    /\ palette = IdlePalette
    /\ ramps = IdleRamps
    /\ mapping = IdleMapping
    /\ bundle = NotCalled
    /\ prior = NotCalled
    /\ rows = IdleRows
    /\ culori = <<>>
    /\ edits = 0

HueIdle == UNCHANGED <<hexIn, stopSet, valid, normalized, renormalized, ramp, lib,
                       samples, tokenVars, mapping, pageVars>>

Delta ==
    /\ delta = NotCalled
    /\ delta' = Return(shortestHueDelta(hueA, hueB))
    /\ UNCHANGED <<hueA, hueB, frac, mixed>>
    /\ HueIdle

Lerp ==
    /\ mixed = NotCalled
    /\ mixed' = Return(lerpOklch(HueColor(hueA), HueColor(hueB), frac))
    /\ UNCHANGED <<hueA, hueB, frac, delta>>
    /\ HueIdle

NextHue == Delta \/ Lerp

SpecHue == InitHue /\ [][NextHue]_vars

(***************************************************************************)
(* The token builder applied to bounded palettes, ramp maps and mappings.  *)
(***************************************************************************)
TokenIds == {"ink", "sun-2", "constructor"}

PaletteColorOf(id) == [id |-> id, label |-> "Color " \o id, hex |-> "#1c2e7a"]

Palettes ==
    UNION { [1..n -> { PaletteColorOf(id) : id \in TokenIds }] : n \in 0..MaxPalette }

RampStepSet == {100, 200, 300, 400, 500, 600, 700, 800, 900}

\* a ramp of nine distinct normalized colours, one ramp per id
RampFor(id) ==
    [s \in RampStepSet |-> "#" \o hex2(255 - (s \div 4)) \o hex2(Len(id)) \o hex2(s \div 10)]

\* the ids that have a ramp: none, one, two or all of them
RampedSets == { {}, {"ink"}, {"ink", "sun-2"}, TokenIds }

RampMaps == { [id \in S |-> RampFor(id)] : S \in RampedSets }

MappingSlots ==
    {"surfacePrimary", "surfaceInverse", "textPrimary", "textInverse",
     "accentPrimary", "accentInverse"}

\* every slot names a, but for the one slot of the one theme that names b
OneOff(a, theme, slot, b) ==
    [t \in {"light", "dark"} |->
        [k \in MappingSlots |-> IF t = theme /\ k = slot THEN b ELSE a]]

\* the roles spread over two colours as in DEFAULT_MAPPING
TwoTone(a, b) ==
    [light |-> [surfacePrimary |-> a, surfaceInverse |-> b, textPrimary |-> b,
                textInverse |-> a, accentPrimary |-> a, accentInverse |-> b],
     dark |-> [surfacePrimary |-> b, surfaceInverse |-> a, textPrimary |-> a,
               textInverse |-> b, accentPrimary |-> b, accentInverse |-> a]]

Mappings ==
    { OneOff(a, t, k, b) : a \in TokenIds, t \in {"light", "dark"},
                           k \in MappingSlots, b \in TokenIds }
    \cup { TwoTone(a, b) : a \in TokenIds, b \in TokenIds }

InitTokens ==
    /\ palette \in Palettes
    /\ ramps \in RampMaps
    /\ mapping \in Mappings
    /\ bundle = NotCalled
    /\ prior = NotCalled
    /\ hexIn = ""
    /\ stopSet = "figma"
    /\ valid = NotCalled
    /\ normalized = NotCalled
    /\ renormalized = NotCalled
    /\ ramp = NotCalled
    /\ lib = NoLib
    /\ samples = <<>>
    /\ IdleHue
    /\ rows = IdleRows
    /\ culori = <<>>
    /\ edits = 0

Build ==
    /\ bundle = NotCalled
    /\ bundle' = buildTokens(palette, ramps, mapping)
    /\ UNCHANGED <<palette, ramps, mapping, prior, stopSet, rampVars, pageVars>>

\* the caller changes one slot of the mapping and builds a second time
Rebuild ==
    /\ bundle # NotCalled
    /\ prior = NotCalled
    /\ \E theme \in {"light", "dark"}, key \in MappingSlots, value \in TokenIds :
         LET m == [mapping EXCEPT ![theme][key] = value]
         IN  /\ m # mapping
             /\ m \in Mappings
             /\ mapping' = m
             /\ bundle' = buildTokens(palette, ramps, m)
    /\ prior' = IF bundle.throws THEN bundle ELSE Return(bundle.value.json.primitives)
    /\ UNCHANGED <<palette, ramps, stopSet, rampVars, pageVars>>

NextTokens == Build \/ Rebuild

SpecTokens == InitTokens /\ [][NextTokens]_vars

(***************************************************************************)
(* src/lib/tokens.ts: slugifyId                                            *)
(***************************************************************************)
SlugChars == { Char("abcdefghijklmnopqrstuvwxyz0123456789", i) : i \in 1..36 }

\* .replace(/[^a-z0-9]+/g, "-"): done is the text replaced so far
RECURSIVE dashRuns(_, _, _)
dashRuns(done, s, i) ==
    IF i > Len(s) THEN done
    ELSE IF Char(s, i) \in SlugChars
    THEN dashRuns(done \o Char(s, i), s, i + 1)
    ELSE IF i > 1 /\ Char(s, i - 1) \notin SlugChars
    THEN dashRuns(done, s, i + 1)
    ELSE dashRuns(done \o "-", s, i + 1)

\* .replace(/^-+|-+$/g, "")
RECURSIVE stripDashes(_)
stripDashes(s) ==
    IF Len(s) > 0 /\ Char(s, 1) = "-" THEN stripDashes(SubSeq(s, 2, Len(s)))
    ELSE IF Len(s) > 0 /\ Char(s, Len(s)) = "-"
    THEN stripDashes(SubSeq(s, 1, Len(s) - 1))
    ELSE s

slugifyId(input) == stripDashes(dashRuns("", toLowerCase(trim(input)), 1))

(***************************************************************************)
(* src/app/page.tsx                                                        *)
(***************************************************************************)
DEFAULT_PALETTE ==
    << [id |-> "deep-blue", label |-> "Deep Blue", hex |-> "#1c2e7a"],
       [id |-> "light-yellow", label |-> "Light Yellow", hex |-> "#f7f2a1"],
       [id |-> "light-blue", label |-> "Light Blue", hex |-> "#56b6e9"],
       [id |-> "deep-yellow", label |-> "Deep Yellow", hex |-> "#f1b400"] >>

DEFAULT_MAPPING ==
    [light |-> [surfacePrimary |-> "light-yellow", surfaceInverse |-> "deep-blue",
                textPrimary |-> "deep-blue", textInverse |-> "light-yellow",
                accentPrimary |-> "light-blue", accentInverse |-> "deep-yellow"],
     dark |-> [surfacePrimary |-> "deep-blue", surfaceInverse |-> "light-yellow",
               textPrimary |-> "light-yellow", textInverse |-> "deep-blue",
               accentPrimary |-> "deep-yellow", accentInverse |-> "light-blue"]]

(***************************************************************************)
(* The page: what the user types, and what culori returns for the colours  *)
(* the page can hold.                                                      *)
(***************************************************************************)
HexTyped == {"#ABC", "#12"}
IdTyped == {"Deep Blue", "Moss 2", "--"}
LabelTyped == {"Ink"}

PageColors ==
    { normalizeHex(DEFAULT_PALETTE[i].hex).value : i \in DOMAIN DEFAULT_PALETTE }
    \cup {"#888888"}
    \cup { normalizeHex(h).value : h \in { x \in HexTyped : isValidHex(x) } }

WorkingLib ==
    [oklch |-> [mode |-> "oklch", l |-> 380000, c |-> 140000, h |-> 268 * Degree],
     gamut |-> [i \in 1..9 |-> InGamut(Rgb(28, 46, 122))]]

FailingLib ==
    [oklch |-> [mode |-> "oklch", l |-> 380000, c |-> 140000, h |-> 268 * Degree],
     gamut |-> [i \in 1..9 |->
                  IF i = 1 THEN [raises |-> TRUE, clamp |-> FALSE, rgb |-> Undefined]
                  ELSE InGamut(Rgb(28, 46, 122))]]

\* culori converts every colour, or all but one (a colour of the default
\* palette, or one typed in), or none
PageLibraries ==
    { [h \in PageColors |-> IF h \in bad THEN FailingLib ELSE WorkingLib] :
        bad \in { {}, {"#f7f2a1"}, {"#aabbcc"}, PageColors } }

\* generateRamp9(hex, set) for the colours the page can hold: the call
\* depends on its arguments and on what culori returns, and on nothing else
pageRamp ==
    [hex \in PageColors |->
        [set \in {"figma", "even"} |->
            [cul \in {WorkingLib, FailingLib} |-> generateRamp9(hex, set, cul)]]]

\* { ...r, ...patch }
Spread(r, patch) ==
    [k \in DOMAIN r \cup DOMAIN patch |-> IF k \in DOMAIN patch THEN patch[k] ELSE r[k]]

Truthy(r, field) == field \in DOMAIN r

\* lines 84-92, the callback of rows.map: the catch of line 89 takes whatever
\* normalizeHex or generateRamp9 throws
computedRow(r, set, cul) ==
    IF ~isValidHex(r.hex) THEN Spread(r, [error |-> "Invalid hex"])
    ELSE LET n == normalizeHex(r.hex)
             g == IF n.throws THEN n ELSE pageRamp[n.value][set][cul[n.value]]
         IN  IF g.throws
             THEN Spread(r, [error |-> g.message])
             ELSE Spread(r, [hex |-> n.value, ramp |-> g.value])

\* a computation that gives up at the first row that fails
computedOf_Abort(rs, set, cul) ==
    LET row == [i \in DOMAIN rs |-> computedRow(rs[i], set, cul)]
    IN  [i \in DOMAIN rs |->
            IF \E j \in 1..i : Truthy(row[j], "error")
            THEN Spread(rs[i], [error |-> "Failed to generate ramp"])
            ELSE row[i]]

\* lines 83-93
computedOf(rs, set, cul) == [i \in DOMAIN rs |-> computedRow(rs[i], set, cul)]

computed == computedOf(rows, stopSet, culori)

\* line 81
colorIds == [i \in DOMAIN rows |-> rows[i].id]

IdSet == { rows[i].id : i \in DOMAIN rows }

\* lines 95-99: a later row with the same id takes the place of an earlier
rampsByIdOf(comp) ==
    LET ramped == { i \in DOMAIN comp : Truthy(comp[i], "ramp") }
    IN  [id \in { comp[i].id : i \in ramped } |->
            comp[CHOOSE i \in ramped :
                    /\ comp[i].id = id
                    /\ \A j \in ramped : comp[j].id = id => j <= i].ramp]

Null == [null |-> TRUE]

\* a token bundle built without looking at the mapping's ids
tokenBundleOf_NoIdCheck(comp, m, ids) ==
    IF ~(\A i \in DOMAIN comp : Truthy(comp[i], "ramp") /\ ~Truthy(comp[i], "error"))
    THEN Null
    ELSE buildTokens(
             [i \in DOMAIN comp |->
                [id |-> comp[i].id, label |-> comp[i].label, hex |-> comp[i].hex]],
             rampsByIdOf(comp), m).value

\* lines 101-120
tokenBundleOf(comp, m, ids) ==
    IF ~(\A i \in DOMAIN comp : Truthy(comp[i], "ramp") /\ ~Truthy(comp[i], "error"))
    THEN Null
    ELSE IF \E theme \in {"light", "dark"} : \E k \in DOMAIN m[theme] :
               m[theme][k] \notin ids
    THEN Null
    ELSE LET b == buildTokens(
                     [i \in DOMAIN comp |->
                        [id |-> comp[i].id, label |-> comp[i].label, hex |-> comp[i].hex]],
                     rampsByIdOf(comp), m)
         IN  IF b.throws THEN Null ELSE b.value

tokenBundle == tokenBundleOf(computed, mapping, IdSet)

\* lines 481-489
RECURSIVE uniqueIdFrom(_, _, _, _)
uniqueIdFrom(base, used, i, id) ==
    IF id \in used
    THEN uniqueIdFrom(base, used, i + 1, base \o "-" \o ToString(i + 1))
    ELSE id

uniqueId(base, used) == uniqueIdFrom(base, used, 1, base)

\* filter
RECURSIVE without(_, _)
without(rs, id) ==
    IF rs = <<>> THEN <<>>
    ELSE IF Head(rs).id = id THEN without(Tail(rs), id)
    ELSE <<Head(rs)>> \o without(Tail(rs), id)

(***************************************************************************)
(* The page as a state machine.                                            *)
(***************************************************************************)
Init ==
    /\ stopSet = "figma"
    /\ rows = [i \in DOMAIN DEFAULT_PALETTE |->
                  Spread(DEFAULT_PALETTE[i],
                         [hex |-> normalizeHex(DEFAULT_PALETTE[i].hex).value])]
    /\ mapping = DEFAULT_MAPPING
    /\ culori \in PageLibraries
    /\ edits = 0
    /\ hexIn = ""
    /\ valid = NotCalled
    /\ normalized = NotCalled
    /\ renormalized = NotCalled
    /\ ramp = NotCalled
    /\ lib = NoLib
    /\ samples = <<>>
    /\ IdleHue
    /\ palette = IdlePalette
    /\ ramps = IdleRamps
    /\ bundle = NotCalled
    /\ prior = NotCalled

Edit ==
    /\ edits < MaxEdits
    /\ edits' = edits + 1
    /\ UNCHANGED <<culori, rampVars, tokenVars>>

\* lines 122-127
addColor ==
    /\ Edit
    /\ rows' = Append(rows, [id |-> uniqueId("new-color", IdSet),
                             label |-> "New Color", hex |-> "#888888"])
    /\ UNCHANGED <<mapping, stopSet>>

\* lines 129-131, from the button of a row
removeColor ==
    /\ Edit
    /\ \E i \in DOMAIN rows : rows' = without(rows, rows[i].id)
    /\ UNCHANGED <<mapping, stopSet>>

\* lines 133-135
updateRow(id, patch) ==
    rows' = [i \in DOMAIN rows |->
                IF rows[i].id = id THEN Spread(rows[i], patch) ELSE rows[i]]

\* line 238
updateLabel ==
    /\ Edit
    /\ \E i \in DOMAIN rows, v \in LabelTyped : updateRow(rows[i].id, [label |-> v])
    /\ UNCHANGED <<mapping, stopSet>>

\* lines 245-249: slugifyId(e.target.value) || r.id
updateId ==
    /\ Edit
    /\ \E i \in DOMAIN rows, v \in IdTyped :
         updateRow(rows[i].id,
                   [id |-> IF slugifyId(v) # "" THEN slugifyId(v) ELSE rows[i].id])
    /\ UNCHANGED <<mapping, stopSet>>

\* line 256
updateHex ==
    /\ Edit
    /\ \E i \in DOMAIN rows, v \in HexTyped : updateRow(rows[i].id, [hex |-> v])
    /\ UNCHANGED <<mapping, stopSet>>

\* lines 137-146, from a select whose options are colorIds
updateMapping ==
    /\ Edit
    /\ \E theme \in {"light", "dark"}, key \in MappingSlots, i \in DOMAIN colorIds :
         mapping' = [mapping EXCEPT ![theme][key] = colorIds[i]]
    /\ UNCHANGED <<rows, stopSet>>

\* line 208
setStopSet ==
    /\ Edit
    /\ \E v \in {"figma", "even"} : stopSet' = v
    /\ UNCHANGED <<rows, mapping>>

Next ==
    \/ addColor
    \/ removeColor
    \/ updateLabel
    \/ updateId
    \/ updateHex
    \/ updateMapping
    \/ setStopSet

Spec == Init /\ [][Next]_vars

(***************************************************************************)
(* Properties of the ramp engine (SpecRamp).                               *)
(***************************************************************************)
\* culori fails to convert the i-th sample of a ramp
LibFails(cul, i) ==
    \/ cul.gamut[i].raises
    \/ ~cul.gamut[i].clamp
    \/ cul.gamut[i].rgb = Undefined

\* C1: whenever generateRamp9 returns, for either stop set, step 500 of the
\* ramp is exactly normalizeHex of the base colour, whatever the conversion
\* of the middle sample produced.
C1_Step500IsBase ==
    Returned(ramp) =>
        /\ ~normalizeHex(hexIn).throws
        /\ ramp.value[500] = normalizeHex(hexIn).value

\* C1 witness: a ramp was returned although the middle sample converted to
\* another colour than the base.
C1_Witness ==
    /\ Returned(ramp)
    /\ stopSet = "even"
    /\ formatHex(lib.gamut[5].rgb) # ramp.value[500]
    /\ ramp.value[500] = "#abcdef"

\* C7: whenever generateRamp9 returns, the ramp has exactly the keys
\* 100..900 and every value is # followed by six lowercase hex digits; when
\* the conversion of a sample fails the call throws, so that no partial ramp
\* is returned.
C7_TotalRamp ==
    /\ Returned(ramp) =>
          /\ DOMAIN ramp.value = RampStepSet
          /\ \A s \in DOMAIN ramp.value : HashDigits(ramp.value[s], HexLower, 6)
    /\ (ramp # NotCalled
          /\ \E i \in 1..9 : LibFails(lib, i))
          => ramp.throws

\* C7 witness: a returned ramp whose steps are not all the same colour.
C7_Witness ==
    /\ Returned(ramp)
    /\ ramp.value[900] # ramp.value[500]
    /\ ramp.value[100] # ramp.value[900]

\* C9: normalizeHex is idempotent, its result is # and six lowercase hex
\* digits, a 6-digit hex comes back lowercased, a 3-digit hex comes back
\* with every digit doubled, and it accepts whatever isValidHex accepts.
C9_NormalizeHex ==
    /\ Returned(normalized) => HashDigits(normalized.value, HexLower, 6)
    /\ renormalized # NotCalled => renormalized = normalized
    /\ (normalized # NotCalled /\ HashDigits(hexIn, HexAny, 6))
          => normalized = Return(toLowerCase(hexIn))
    /\ (normalized # NotCalled /\ HashDigits(hexIn, HexAny, 3))
          => /\ Returned(normalized)
             /\ Len(normalized.value) = 7
             /\ \A i \in 1..3 :
                  /\ Char(normalized.value, 2 * i) = lowerChar(Char(hexIn, i + 1))
                  /\ Char(normalized.value, 2 * i + 1) = lowerChar(Char(hexIn, i + 1))
    /\ (valid = Return(TRUE) /\ normalized # NotCalled) => Returned(normalized)

\* C9 witness: a padded mixed-case shorthand, valid, normalised twice.
C9_Witness ==
    /\ hexIn = " #AbC"
    /\ valid = Return(TRUE)
    /\ normalized = Return("#aabbcc")
    /\ renormalized = Return("#aabbcc")

\* C13: for a base colour of lightness L in [0, 1] and both stop sets, the
\* lightness of the sampled colours, before clamping, does not increase
\* from step 100 to step 900; step 100 has (1 + L) / 2, step 500 has L and
\* step 900 has L / 2.
C13_LightnessMonotone ==
    (ramp # NotCalled /\ lib.oklch.l >= 0 /\ lib.oklch.l <= Unit) =>
        LET L == toOklch(parse(hexIn), lib.oklch).l
        IN  /\ \A i, j \in DOMAIN samples : i <= j => samples[i].l >= samples[j].l
            /\ Len(samples) >= 1 => 2 * samples[1].l = Unit + L
            /\ Len(samples) >= 5 => samples[5].l = L
            /\ Len(samples) >= 9 => 2 * samples[9].l = L
            /\ Returned(ramp) => Len(samples) = 9

\* C13 witness: a returned ramp of the even stop set whose nine samples
\* run from lightness 0.69 over 0.38 down to 0.19.
C13_Witness ==
    /\ Returned(ramp)
    /\ stopSet = "even"
    /\ Len(samples) = 9
    /\ samples[1].l = 690000
    /\ samples[5].l = 380000
    /\ samples[9].l = 190000
    /\ samples[2].l > samples[3].l

(***************************************************************************)
(* Properties of the hue arithmetic (SpecHue).                             *)
(***************************************************************************)
\* C12 (as claimed): for hues a, b in [0, 360) the delta of shortestHueDelta
\* lies in (-180, 180], never -180, and is congruent to b - a modulo 360;
\* the hue of lerpOklch lies in [0, 360), is a at t = 0 and b at t = 1.
C12_HueDelta ==
    /\ Returned(delta) =>
          /\ delta.value > -180 * Degree
          /\ delta.value <= 180 * Degree
          /\ (delta.value - (hueB - hueA)) % (360 * Degree) = 0
    /\ Returned(mixed) =>
          /\ mixed.value.h >= 0
          /\ mixed.value.h < 360 * Degree
          /\ frac = 0 => mixed.value.h = hueA
          /\ frac = Milli => mixed.value.h = hueB

(***************************************************************************)
(* Properties of the token builder (SpecTokens).                           *)
(***************************************************************************)
PaletteIds == { palette[i].id : i \in DOMAIN palette }

\* the palette colours that have a ramp in the ramp map
RampedIds == { id \in PaletteIds : id \in DOMAIN ramps }

Primitives == bundle.value.json.primitives

Themes == {"light", "dark"}

\* the values of the semantic and component tokens of a theme
TokenValues(theme) ==
    { bundle.value.json.themes[theme][i].v :
        i \in DOMAIN bundle.value.json.themes[theme] }
    \cup { bundle.value.json.components[theme][i].v :
             i \in DOMAIN bundle.value.json.components[theme] }

IsVarRef(v) == Len(v) > 5 /\ SubSeq(v, 1, 4) = "var(" /\ Char(v, Len(v)) = ")"

RefName(v) == SubSeq(v, 5, Len(v) - 1)

\* the ids the twelve slots of the mapping name
MappedIds == { mapping[t][k] : t \in Themes, k \in MappingSlots }

IsPrimitiveName(v) ==
    \E id \in MappedIds, s \in RampStepSet :
        v = "--c-" \o id \o "-" \o ToString(s)

CssLines == { bundle.value.css[i] : i \in DOMAIN bundle.value.css }

\* the declarations of the :root block of the css text
RootLines == { bundle.value.css[i] : i \in 3..(2 + Len(Primitives)) }

\* C2 (as claimed): buildTokens throws whenever a mapping slot names an id
\* that is not a palette colour with a ramp.
C2_MissingReferenceThrows ==
    (bundle # NotCalled
       /\ \E t \in Themes, k \in MappingSlots : mapping[t][k] \notin RampedIds)
    => bundle.throws

\* C3: with unique palette ids, a ramp for every palette colour and all
\* twelve slots naming palette ids, every var(...) reference of a semantic
\* or component token names a key of the primitives map, which the :root
\* block declares.
C3_Precondition ==
    /\ Returned(bundle)
    /\ \A i, j \in DOMAIN palette : palette[i].id = palette[j].id => i = j
    /\ \A i \in DOMAIN palette : palette[i].id \in DOMAIN ramps
    /\ \A t \in Themes, k \in MappingSlots : mapping[t][k] \in PaletteIds

C3_ReferencesResolve ==
    C3_Precondition =>
        \A t \in Themes : \A v \in TokenValues(t) :
            IsVarRef(v) =>
                /\ RefName(v) \in Keys(Primitives)
                /\ varLine(RefName(v), Get(Primitives, RefName(v))) \in RootLines

\* C3 witness: a bundle built from two colours, both with a ramp and both
\* named by the mapping.
C3_Witness ==
    /\ C3_Precondition
    /\ Len(palette) = 2
    /\ mapping = TwoTone("ink", "constructor")
    /\ "var(--c-constructor-900)" \in TokenValues("light")

\* C4 (as claimed): every value of json.themes and json.components is a bare
\* primitive name, without var(...), or transparent.
C4_JsonBareNames ==
    Returned(bundle) =>
        \A t \in Themes : \A v \in TokenValues(t) :
            v = "transparent" \/ IsPrimitiveName(v)

\* C4 (amended): every value of json.themes and json.components is
\* var(--c-<id>-<step>), wrapper included, or transparent, and the css text
\* declares each token with that same value.
C4_JsonSameAsCss ==
    Returned(bundle) =>
        \A t \in Themes :
            /\ \A v \in TokenValues(t) :
                 v = "transparent" \/ (IsVarRef(v) /\ IsPrimitiveName(RefName(v)))
            /\ \A i \in DOMAIN bundle.value.json.themes[t] :
                 varLine(bundle.value.json.themes[t][i].k,
                         bundle.value.json.themes[t][i].v) \in CssLines
            /\ \A i \in DOMAIN bundle.value.json.components[t] :
                 varLine(bundle.value.json.components[t][i].k,
                         bundle.value.json.components[t][i].v) \in CssLines

\* C4 witness: a returned bundle whose json holds a wrapped reference and
\* the literal transparent.
C4_Witness ==
    /\ Returned(bundle)
    /\ Get(bundle.value.json.themes["dark"], "--text-primary") = "var(--c-sun-2-100)"
    /\ Get(bundle.value.json.components["dark"], "--btn-secondary-bg") = "transparent"

\* the table of the semantic layer: slot, role, light step, dark step
SemanticTable ==
    { <<"--surface-primary", "surfacePrimary", 100, 900>>,
      <<"--surface-secondary", "surfacePrimary", 200, 800>>,
      <<"--surface-inverse", "surfaceInverse", 900, 100>>,
      <<"--text-primary", "textPrimary", 900, 100>>,
      <<"--text-secondary", "textPrimary", 700, 200>>,
      <<"--text-muted", "textPrimary", 600, 400>>,
      <<"--text-disabled", "textPrimary", 400, 500>>,
      <<"--text-inverse", "textInverse", 100, 900>>,
      <<"--border-default", "textPrimary", 300, 700>>,
      <<"--border-strong", "textPrimary", 400, 600>>,
      <<"--border-subtle", "textPrimary", 200, 800>>,
      <<"--accent", "accentPrimary", 500, 500>>,
      <<"--accent-hover", "accentPrimary", 600, 600>>,
      <<"--accent-active", "accentPrimary", 700, 700>>,
      <<"--accent-inverse", "accentInverse", 500, 500>>,
      <<"--link", "accentPrimary", 500, 500>>,
      <<"--link-hover", "accentPrimary", 600, 600>>,
      <<"--link-active", "accentPrimary", 700, 700>> }

\* C5: in each theme every semantic slot references the primitive of the
\* role id and step of the table, and link, link-hover, link-active equal
\* accent, accent-hover, accent-active.
C5_SemanticTable ==
    Returned(bundle) =>
        \A t \in Themes :
            LET sem == bundle.value.json.themes[t]
            IN  /\ Keys(sem) = { row[1] : row \in SemanticTable }
                /\ Len(sem) = Cardinality(SemanticTable)
                /\ \A row \in SemanticTable :
                     Get(sem, row[1]) =
                        "var(--c-" \o mapping[t][row[2]] \o "-"
                            \o ToString(IF t = "light" THEN row[3] ELSE row[4])
                            \o ")"
                /\ Get(sem, "--link") = Get(sem, "--accent")
                /\ Get(sem, "--link-hover") = Get(sem, "--accent-hover")
                /\ Get(sem, "--link-active") = Get(sem, "--accent-active")

\* C5 witness: a bundle built from a mapping whose roles name two colours.
C5_Witness ==
    /\ Returned(bundle)
    /\ mapping = TwoTone("sun-2", "ink")
    /\ Get(bundle.value.json.themes["dark"], "--text-disabled") = "var(--c-sun-2-500)"

\* C6 (as claimed): the primitives map has exactly one entry per palette
\* colour with a ramp in the ramp map and step, keyed --c-<id>-<step>, valued
\* with that ramp's hex; a colour without a ramp contributes nothing.
C6_PrimitivesExact ==
    Returned(bundle) =>
        /\ Keys(Primitives) =
              { varNamePrimitive(id, s) : id \in RampedIds, s \in RampStepSet }
        /\ Len(Primitives) = Cardinality(Keys(Primitives))
        /\ \A id \in RampedIds : \A s \in RampStepSet :
              Get(Primitives, varNamePrimitive(id, s)) = ramps[id][s]

\* C8: a second build from the same palette and ramp map with another
\* mapping yields the primitives of the first, and within one build the
\* light and dark themes reference different steps of the same primitives.
C8_PrimitivesFrame ==
    /\ (prior # NotCalled /\ Returned(bundle)) => prior = Return(Primitives)
    /\ Returned(bundle) =>
          /\ Get(bundle.value.json.themes["light"], "--text-primary")
                = "var(" \o varNamePrimitive(mapping["light"].textPrimary, 900) \o ")"
          /\ Get(bundle.value.json.themes["dark"], "--text-primary")
                = "var(" \o varNamePrimitive(mapping["dark"].textPrimary, 100) \o ")"

\* C8 witness: a second build, with another colour for a role, from a
\* palette that has primitives.
C8_Witness ==
    /\ prior # NotCalled
    /\ Returned(bundle)
    /\ Len(Primitives) > 9
    /\ mapping["light"].textPrimary # mapping["dark"].textPrimary

\* the semantic slots of the surface, text and border roles
MirrorSlots ==
    {"--surface-primary", "--surface-secondary", "--surface-inverse",
     "--text-primary", "--text-secondary", "--text-muted", "--text-disabled",
     "--text-inverse", "--border-default", "--border-strong", "--border-subtle"}

\* the steps s for which the slot of a table row references, in the theme,
\* step s of the colour the mapping gives the row's role
StepsOf(theme, row) ==
    LET value == Get(bundle.value.json.themes[theme], row[1])
        stem == "var(--c-" \o mapping[theme][row[2]] \o "-"
    IN  { s \in RampStepSet : value = stem \o ToString(s) \o ")" }

Mirrored(row) ==
    LET light == StepsOf("light", row)
    IN  /\ light # {}
        /\ StepsOf("dark", row) = { 1000 - s : s \in light }

\* C11 (as claimed): for every slot of the surface, text and border roles
\* the step referenced in the dark theme is 1000 minus the step referenced
\* in the light theme.
C11_MirroredSteps ==
    Returned(bundle) =>
        \A row \in SemanticTable : row[1] \in MirrorSlots => Mirrored(row)

\* C11 (amended): the same for every such slot but text-secondary, which
\* references step 700 in light and 200 in dark, and text-disabled, which
\* references step 400 in light and 500 in dark.
C11_MirroredButTwo ==
    Returned(bundle) =>
        \A row \in SemanticTable :
            row[1] \in MirrorSlots =>
                IF row[1] = "--text-secondary"
                THEN StepsOf("light", row) = {700} /\ StepsOf("dark", row) = {200}
                ELSE IF row[1] = "--text-disabled"
                THEN StepsOf("light", row) = {400} /\ StepsOf("dark", row) = {500}
                ELSE Mirrored(row)

\* C11 witness: a bundle whose light and dark themes give a role to
\* different colours, with a mirrored slot and one that is not.
C11_Witness ==
    /\ Returned(bundle)
    /\ mapping = TwoTone("ink", "sun-2")
    /\ Get(bundle.value.json.themes["light"], "--border-default") = "var(--c-sun-2-300)"
    /\ Get(bundle.value.json.themes["dark"], "--border-default") = "var(--c-ink-700)"
    /\ Get(bundle.value.json.themes["dark"], "--text-secondary") = "var(--c-ink-200)"

(***************************************************************************)
(* Properties of the page (Spec).                                          *)
(***************************************************************************)

\* the ramp of row r cannot be computed
RowFails(r) ==
    \/ ~isValidHex(r.hex)
    \/ \E i \in 1..9 : LibFails(culori[normalizeHex(r.hex).value], i)

RowIsolation(comp) ==
    /\ Len(comp) = Len(rows)
    /\ \A i \in DOMAIN rows :
         /\ comp[i].id = rows[i].id
         /\ RowFails(rows[i]) =>
               Truthy(comp[i], "error") /\ ~Truthy(comp[i], "ramp")
         /\ ~RowFails(rows[i]) =>
               /\ ~Truthy(comp[i], "error")
               /\ Truthy(comp[i], "ramp")
               /\ comp[i].ramp[500] = normalizeHex(rows[i].hex).value

\* C10: in one pass over the rows, a row whose hex is invalid or whose ramp
\* generation throws gets an error and no ramp, and every other row gets its
\* own ramp, whatever the other rows are.
C10_RowIsolation == RowIsolation(computed)

\* C10 witness: a row with an invalid hex and a row whose generation throws,
\* followed by a row that has its ramp.
C10_Witness ==
    /\ Len(rows) >= 3
    /\ ~isValidHex(rows[1].hex)
    /\ isValidHex(rows[2].hex) /\ RowFails(rows[2])
    /\ Truthy(computed[3], "ramp")
    /\ Truthy(computed[1], "error") /\ Truthy(computed[2], "error")

\* the mapping slots that name an id no row of the palette has
DanglingSlots(ids) ==
    { <<t, k>> \in Themes \X MappingSlots : mapping[t][k] \notin ids }

\* every var(...) value of the bundle b names a key of its primitives
NoDanglingReference(b) ==
    \A t \in Themes :
        /\ \A i \in DOMAIN b.json.themes[t] :
             IsVarRef(b.json.themes[t][i].v) =>
                 RefName(b.json.themes[t][i].v) \in Keys(b.json.primitives)
        /\ \A i \in DOMAIN b.json.components[t] :
             IsVarRef(b.json.components[t][i].v) =>
                 RefName(b.json.components[t][i].v) \in Keys(b.json.primitives)

\* a bundle b is there only for a palette whose rows all have a ramp and no
\* error and a mapping whose slots all name palette ids
BundleOnlyWhenValid(b, comp) ==
    b # Null =>
        /\ \A i \in DOMAIN comp : Truthy(comp[i], "ramp") /\ ~Truthy(comp[i], "error")
        /\ DanglingSlots(IdSet) = {}
        /\ NoDanglingReference(b)

\* a step that takes from the palette an id a slot names leaves the mapping
\* as it is
MappingKept ==
    (DanglingSlots(IdSet') # DanglingSlots(IdSet) /\ rows' # rows)
        => mapping' = mapping

\* C14: after any sequence of edits the page has a token bundle only when
\* every row has a ramp and no error and all twelve mapping slots name ids
\* of the palette; removing or renaming a colour a slot names leaves the
\* mapping unchanged, and the bundle is then unavailable, never built with
\* a dangling id.
C14_BundleOnlyWhenValid ==
    /\ [](BundleOnlyWhenValid(tokenBundle, computed))
    /\ [][MappingKept]_vars

\* C14 witness: a colour the default mapping names was removed or renamed;
\* every remaining row has its ramp, the mapping is as before, and there is
\* no bundle.
C14_Witness ==
    /\ edits >= 1
    /\ mapping = DEFAULT_MAPPING
    /\ DanglingSlots(IdSet) # {}
    /\ \A i \in DOMAIN computed : Truthy(computed[i], "ramp")
    /\ tokenBundle = Null

\* C15 (as claimed): in every state reached from the default palette by
\* addColor, removeColor and updateRow no two rows share an id, and the ramp
\* map keyed by id has one ramp per row that has a ramp.
C15_UniqueIds ==
    /\ \A i, j \in DOMAIN rows : rows[i].id = rows[j].id => i = j
    /\ Cardinality(DOMAIN rampsByIdOf(computed))
          = Cardinality({ i \in DOMAIN computed : Truthy(computed[i], "ramp") })

====
